---- MODULE Spec2Model ----
(***************************************************************************)
(* Asynchronous stream framing of capnp-futures (src/serialize.rs):        *)
(* write_message / read_message over a Cursor wrapped in the BlockingWrite  *)
(* and BlockingRead adapters of the test module.  One action per poll of    *)
(* the underlying stream and one per straight-line block between awaits.    *)
(*                                                                          *)
(* Numbers.  A byte is an integer 0..255.  A u32 or usize value is a pair   *)
(* <<hi, lo>> standing for hi * 65536 + lo with lo in 0..65535, because     *)
(* 0xFFFFFFFF and sums of u32 lengths do not fit the checker's integers.    *)
(* For a u32 hi is kept below 65536.  A Word is a tuple of 8 bytes, a       *)
(* segment a sequence of Words, a message a sequence of segments.           *)
(***************************************************************************)
EXTENDS Integers, Sequences, FiniteSets, TLC

\* ---------------------------------------------------------------- bounds
\* A message written by the round-trip harness has at most MaxSegs segments
\* and at most MaxWords words; at most MaxMsgs messages go on one stream.
MaxSegs == 5
MaxWords == 2
MaxMsgs == 2
\* Length in bytes of the longest raw stream handed to the reader alone.
MaxRawBytes == 40

\* The block frequencies the harnesses try: every byte alone, a few bytes,
\* one whole header word, and more than a word at once.
Frequencies == {1, 3, 8, 11}

\* ------------------------------------------------------------ arithmetic
Min(a, b) == IF a < b THEN a ELSE b

Zeros(k) == [i \in 1..k |-> 0]

\* The pair of a small natural number.
U(k) == <<k \div 65536, k % 65536>>

\* The natural number of a pair (defined when it fits).
UVal(u) == u[1] * 65536 + u[2]

\* Mutant of UAdd: the sum is kept in 32 bits.
UAdd32(a, b) ==
    <<(a[1] + b[1] + ((a[2] + b[2]) \div 65536)) % 65536, (a[2] + b[2]) % 65536>>

\* usize addition; the high part stays far below 2^48 for every header the
\* reader accepts, so the 64-bit wrap is out of reach.
UAdd(a, b) == <<a[1] + b[1] + ((a[2] + b[2]) \div 65536), (a[2] + b[2]) % 65536>>

UGt(a, b) == a[1] > b[1] \/ (a[1] = b[1] /\ a[2] > b[2])

ULe(a, b) == ~UGt(a, b)

UGe(a, b) == ~UGt(b, a)

\* min(k, u) of a small number and a pair.
UMin(k, u) == IF u[1] > 0 \/ u[2] >= k THEN k ELSE u[2]

\* u - k for a small number k <= u.
USub(u, k) ==
    IF u[2] >= k THEN <<u[1], u[2] - k>> ELSE <<u[1] - 1, u[2] + 65536 - k>>

\* The byte length of u Words.
UBytes(u) == <<8 * u[1] + ((8 * u[2]) \div 65536), (8 * u[2]) % 65536>>

\* `x as u32` of a length.
as_u32(k) == <<(k \div 65536) % 65536, k % 65536>>

u32_from_le_bytes(b) == <<b[3] + 256 * b[4], b[1] + 256 * b[2]>>

u32_to_le_bytes(u) == <<u[2] % 256, u[2] \div 256, u[1] % 256, u[1] \div 256>>

\* Mutant of wrapping_add_1: the sum is not reduced to 32 bits.
unwrapped_add_1(u) ==
    IF u[2] = 65535 THEN <<u[1] + 1, 0>> ELSE <<u[1], u[2] + 1>>

\* u32::wrapping_add(1)
wrapping_add_1(u) ==
    IF u[2] = 65535 THEN <<(u[1] + 1) % 65536, 0>> ELSE <<u[1], u[2] + 1>>

\* u32 subtraction of 1 from a count >= 1 (`segment_count as u32 - 1`).
u32_sub_1(u) ==
    IF u[2] = 0 THEN <<u[1] - 1, 65535>> ELSE <<u[1], u[2] - 1>>

\* buf[from..to] of a zero-based Rust slice, as a sequence.
Slice(s, from, to) == SubSeq(s, from + 1, to)

\* Mutant of CopyInto: the bytes go to the front of the buffer.
CopyIntoFront(dst, at, src) ==
    [i \in 1..Len(dst) |-> IF i <= Len(src) THEN src[i] ELSE dst[i]]

\* dst[at..at+len(src)].copy_from_slice(src), zero-based `at`.
CopyInto(dst, at, src) ==
    [i \in 1..Len(dst) |->
        IF i > at /\ i <= at + Len(src) THEN src[i - at] ELSE dst[i]]

RECURSIVE Flatten(_)
Flatten(ss) == IF ss = <<>> THEN <<>> ELSE Head(ss) \o Flatten(Tail(ss))

\* Word::words_to_bytes
words_to_bytes(ws) == Flatten(ws)

\* The Words held by 8 * k bytes.
bytes_to_words(bs) ==
    [j \in 1..(Len(bs) \div 8) |-> SubSeq(bs, 8 * (j - 1) + 1, 8 * j)]

\* ---------------------------------------------------------------- state
VARIABLES
    phase,            \* "write": the harness is writing; "read": it is reading
    msgs,             \* the messages the harness writes, in order
    source,           \* the AsOutputSegments impl of the messages: "Vec"
                      \* (lines 402-414) or "OutputSegments" (lines 160-164)
    written,          \* how many write_message calls have returned Ok
    stream,           \* Cursor: the underlying Vec<u8>
    pos,              \* Cursor: position
    \* BlockingWrite
    wfrequency, widx,
    \* write_message / write_segment_table / write_segments
    wpc, segments, wbuf, wvec, wn, wi, wresult,
    wstart,           \* Cursor position when write_message was called
    \* observation of one write_message call
    woffer,           \* the buffer last handed to poll_write, and where
    sinkcalls,        \* the AsyncWrite methods the call has invoked
    \* BlockingRead
    rfrequency, ridx,
    \* read_message / read_segment_table / read_segments
    options, rpc, buf, n, segment_count, segment_slices, total_words,
    segment_sizes, owned_space, result, got,
    \* observation of one read_message call
    rstart,           \* Cursor position when the call began
    allocs            \* word lengths of the payload buffers the call allocated

wvars == <<wfrequency, widx, wpc, segments, wbuf, wvec, wn, wi, wresult,
           wstart, woffer, sinkcalls>>
rlocals == <<buf, n, segment_count, segment_slices, total_words,
             segment_sizes, owned_space>>
rvars == <<rfrequency, ridx, options, rpc, buf, n, segment_count,
           segment_slices, total_words, segment_sizes, owned_space, result,
           got, rstart, allocs>>
vars == <<phase, msgs, source, written, stream, pos, wvars, rvars>>

\* ---------------------------------------------------------------- inputs
RECURSIVE SumSeq(_)
SumSeq(ls) == IF ls = <<>> THEN 0 ELSE Head(ls) + SumSeq(Tail(ls))

\* The k-th Word the harness writes (k from 0): eight bytes found nowhere else
\* on the stream, so a word delivered to the wrong place is seen.
WordOf(k) == [i \in 1..8 |-> (8 * k + i) % 256]

RECURSIVE BuildSegments(_, _)
BuildSegments(lens, k) ==
    IF lens = <<>> THEN <<>>
    ELSE <<[j \in 1..Head(lens) |-> WordOf(k + j - 1)]>>
         \o BuildSegments(Tail(lens), k + Head(lens))

RECURSIVE Group(_, _)
Group(segs, sizes) ==
    IF sizes = <<>> THEN <<>>
    ELSE <<SubSeq(segs, 1, Head(sizes))>>
         \o Group(SubSeq(segs, Head(sizes) + 1, Len(segs)), Tail(sizes))

\* Segment lengths of everything written to one stream.
LengthLists ==
    {ls \in UNION {[1..k -> 0..MaxWords] : k \in 0..MaxSegs} :
        SumSeq(ls) <= MaxWords}

\* How the segments are dealt to the messages: each message is non-empty
\* (round_trip discards an empty segment list, line 504).
SizeLists(k) ==
    {zs \in UNION {[1..m -> 1..MaxSegs] : m \in 0..MaxMsgs} : SumSeq(zs) = k}

MessageLists ==
    UNION {{Group(BuildSegments(ls, 0), zs) : zs \in SizeLists(Len(ls))} :
              ls \in LengthLists}

\* ------------------------------------------------- Cursor, BlockingWrite
\* Cursor<Vec<u8>>::write: the bytes go in at the position, over what is
\* there and past the end, and the position moves on.
cursor_write(data) ==
    SubSeq(stream, 1, pos) \o data
        \o SubSeq(stream, pos + Len(data) + 1, Len(stream))

\* BlockingWrite::poll_write on the unwritten rest of a buffer.  With idx = 0
\* it re-arms idx and answers Pending; otherwise the Cursor takes
\* min(idx, len) bytes.  `accepted` is what write_all adds to its count.
poll_write_pending == widx = 0

poll_write_len(rest) == Min(widx, Len(rest))

\* Mutant of accepted: every byte offered is taken for written.
accepted_all(whole) ==
    IF poll_write_pending THEN 0 ELSE Len(whole) - wn

\* What one poll of write_all(whole), `wn` bytes of it accepted before, adds
\* to the count: nothing on Pending.
accepted(whole) ==
    IF poll_write_pending THEN 0
    ELSE poll_write_len(SubSeq(whole, wn + 1, Len(whole)))

\* No poll_write yet in this call.
NoOffer == [at |-> 0, buf |-> <<>>]

\* The effect of that poll on the adapter and the Cursor.  write_all hands
\* poll_write the rest of its buffer, &buf[n..].
poll_write(whole) ==
    LET rest == SubSeq(whole, wn + 1, Len(whole))
        len == poll_write_len(rest)
    IN /\ woffer' = [at |-> pos - wstart, buf |-> rest]
       /\ sinkcalls' = sinkcalls \cup {"poll_write"}
       /\ IF poll_write_pending
          THEN /\ widx' = wfrequency
               /\ UNCHANGED <<stream, pos>>
          ELSE /\ stream' = cursor_write(SubSeq(rest, 1, len))
               /\ pos' = pos + len
               /\ widx' = widx - len

\* Whether that poll makes write_all return.
write_all_done(whole) == wn + accepted(whole) = Len(whole)

\* --------------------------------------------------------- write_message
\* Mutant of as_output_segments: an empty Vec is handed over as it is.
as_output_segments_as_is(message) == message

\* impl AsOutputSegments for Vec<Vec<Word>>
as_output_segments(message) ==
    IF Len(message) = 0 THEN << <<>> >> ELSE message

\* message.as_output_segments() (line 182).  A Vec<Vec<Word>> goes through
\* its impl; any other source hands over the list it holds (lines 160-164).
output_segments(src, message) ==
    IF src = "Vec" THEN as_output_segments(message) ELSE message

\* Lines 195-196 on an empty list: `segment_count as u32 - 1` overflows (a
\* panic where overflow is checked) and `segments[0]` is out of bounds (a
\* panic everywhere), both before the write_all of line 197.
first_word_panics(segs) == Len(segs) = 0

\* Mutant of calls_on_return: the sink is flushed before Ok(()).
calls_on_return_flushed(calls) == calls \cup {"poll_flush"}

\* Lines 184-185 and 231: write_segments and write_message return Ok(())
\* with no further call on the sink.
calls_on_return(calls) == calls

\* The first word of the table: segment count minus one, first length.
first_table_word(segs) ==
    u32_to_le_bytes(u32_sub_1(as_u32(Len(segs))))
        \o u32_to_le_bytes(as_u32(Len(segs[1])))

\* (segment_count & !1) * 4, the length of the vector of line 210.
write_table_len(count) == (count - (count % 2)) * 4

RECURSIVE copy_lengths(_, _, _)
copy_lengths(v, segs, idx) ==
    IF idx >= Len(segs) THEN v
    ELSE copy_lengths(
             CopyInto(v, (idx - 1) * 4, u32_to_le_bytes(as_u32(Len(segs[idx + 1])))),
             segs, idx + 1)

\* Mutant of small_table_rest: the second half is zeroed for three segments,
\* not for two.
small_table_rest_pads_three(b, segs) ==
    LET v == copy_lengths(b, segs, 1)
    IN IF Len(segs) = 3 THEN CopyInto(v, 4, Zeros(4)) ELSE v

\* Mutant of small_table_rest: the second half is not zeroed for two segments.
small_table_rest_unpadded(b, segs) == copy_lengths(b, segs, 1)

\* Lines 201-207: the 8-byte buffer, still holding the first word, takes the
\* lengths of segments 1.. and, for two segments, a zeroed second half.
small_table_rest(b, segs) ==
    LET v == copy_lengths(b, segs, 1)
    IN IF Len(segs) = 2 THEN CopyInto(v, 4, Zeros(4)) ELSE v

\* Lines 210-217: a fresh zeroed vector takes the lengths of segments 1..,
\* and its last four bytes are zeroed when the count is even.
general_table_rest(segs) ==
    LET count == Len(segs)
        v == copy_lengths(Zeros(write_table_len(count)), segs, 1)
    IN IF count % 2 = 0 THEN CopyInto(v, Len(v) - 4, Zeros(4)) ELSE v

\* write_message is called: the segments are taken and write_segment_table
\* fills the first word (lines 182-196).
WriteMessage ==
    /\ phase = "write" /\ wpc = "idle" /\ wresult # "panic"
    /\ written < Len(msgs)
    /\ segments' = output_segments(source, msgs[written + 1])
    /\ IF first_word_panics(segments')
       THEN wresult' = "panic" /\ UNCHANGED <<wbuf, wpc>>
       ELSE /\ wbuf' = first_table_word(segments')
            /\ wpc' = "table_first"
            /\ wresult' = "running"
    /\ wn' = 0
    /\ wi' = 0
    /\ wstart' = pos
    /\ woffer' = NoOffer
    /\ sinkcalls' = {}
    /\ UNCHANGED <<phase, msgs, source, written, stream, pos, wfrequency, widx,
                   wvec, rvars>>

\* write.write_all(&buf) of the first word (line 197), one poll; when it
\* returns, the rest of the table is laid out (lines 199-217).
PollWriteFirst ==
    /\ wpc = "table_first"
    /\ poll_write(wbuf)
    /\ IF write_all_done(wbuf)
       THEN /\ wn' = 0
            /\ IF Len(segments) > 1
               THEN IF Len(segments) < 4
                    THEN /\ wbuf' = small_table_rest(wbuf, segments)
                         /\ wpc' = "table_small"
                         /\ UNCHANGED wvec
                    ELSE /\ wvec' = general_table_rest(segments)
                         /\ wpc' = "table_general"
                         /\ UNCHANGED wbuf
               ELSE /\ wpc' = "segments"
                    /\ UNCHANGED <<wbuf, wvec>>
       ELSE /\ wn' = wn + accepted(wbuf)
            /\ UNCHANGED <<wpc, wbuf, wvec>>
    /\ UNCHANGED <<source, phase, msgs, written, wfrequency, segments, wi, wresult,
                   wstart, rvars>>

\* write.write_all(&buf) of a table of 2 or 3 segments (line 208), one poll.
PollWriteSmall ==
    /\ wpc = "table_small"
    /\ poll_write(wbuf)
    /\ IF write_all_done(wbuf)
       THEN wn' = 0 /\ wpc' = "segments"
       ELSE wn' = wn + accepted(wbuf) /\ UNCHANGED wpc
    /\ UNCHANGED <<source, phase, msgs, written, wfrequency, segments, wbuf, wvec, wi,
                   wresult, wstart, rvars>>

\* write.write_all(&buf) of a table of 4 or more segments (line 218), one poll.
PollWriteGeneral ==
    /\ wpc = "table_general"
    /\ poll_write(wvec)
    /\ IF write_all_done(wvec)
       THEN wn' = 0 /\ wpc' = "segments"
       ELSE wn' = wn + accepted(wvec) /\ UNCHANGED wpc
    /\ UNCHANGED <<source, phase, msgs, written, wfrequency, segments, wbuf, wvec, wi,
                   wresult, wstart, rvars>>

\* The loop of write_segments (lines 228-231): past the last segment
\* write_message returns Ok; write_all of an empty segment returns without a
\* poll; any other segment is written poll by poll.
WriteSegments ==
    /\ wpc = "segments"
    /\ IF wi = Len(segments)
       THEN /\ wpc' = "idle"
            /\ wresult' = "ok"
            /\ written' = written + 1
            /\ sinkcalls' = calls_on_return(sinkcalls)
            /\ UNCHANGED wi
       ELSE /\ IF Len(segments[wi + 1]) = 0
               THEN wi' = wi + 1 /\ UNCHANGED wpc
               ELSE wpc' = "segment" /\ UNCHANGED wi
            /\ UNCHANGED <<wresult, written, sinkcalls>>
    /\ wn' = 0
    /\ UNCHANGED <<phase, msgs, source, stream, pos, wfrequency, widx, segments,
                   wbuf, wvec, wstart, woffer, rvars>>

\* write.write_all(Word::words_to_bytes(segments[i])) (line 229), one poll.
PollWriteSegment ==
    /\ wpc = "segment"
    /\ LET bytes == words_to_bytes(segments[wi + 1])
       IN /\ poll_write(bytes)
          /\ IF write_all_done(bytes)
             THEN wn' = 0 /\ wi' = wi + 1 /\ wpc' = "segments"
             ELSE wn' = wn + accepted(bytes) /\ UNCHANGED <<wi, wpc>>
    /\ UNCHANGED <<source, phase, msgs, written, wfrequency, segments, wbuf, wvec,
                   wresult, wstart, rvars>>

\* -------------------------------------------------- Cursor, BlockingRead
\* BlockingRead::poll_read into a buffer of `want` bytes.  With idx = 0 it
\* re-arms idx and answers Pending; otherwise the Cursor hands over what it
\* has left, at most min(idx, want) bytes, and 0 bytes at its end.
poll_read_pending == ridx = 0

bytes_read(want) == Min(Min(ridx, want), Len(stream) - pos)

read_data(want) == SubSeq(stream, pos + 1, pos + bytes_read(want))

poll_read(want) ==
    IF poll_read_pending
    THEN /\ ridx' = rfrequency
         /\ UNCHANGED pos
    ELSE /\ ridx' = ridx - bytes_read(want)
         /\ pos' = pos + bytes_read(want)

\* ---------------------------------------------------------- read_message
\* ReaderOptions::default(): 8 * 1024 * 1024 words.
default_options == [traversal_limit_in_words |-> U(8 * 1024 * 1024)]

\* Mutant of read_table_len: the count rounded up to even, less one.
read_table_len_rounded_up(count) == ((count + (count % 2)) - 1) * 4

\* Mutant of read_table_len: the count is not rounded down to even.
read_table_len_unrounded(count) == count * 4

\* (segment_count & !1) * 4, the length of segment_sizes (line 90).
read_table_len(count) == (count - (count % 2)) * 4

\* Mutant of first_read_next: a short first read is taken for the end of the
\* stream.
first_read_next_short_is_end(k) == IF k < 8 THEN "none" ELSE "parse"

\* Where read_segment_table goes after the first read returned k bytes
\* (lines 65-69).
first_read_next(k) ==
    IF k = 0 THEN "none" ELSE IF k < 8 THEN "first_exact" ELSE "parse"

\* Mutant of read_exact_step: after a read of 0 bytes read_exact polls again.
read_exact_step_polls_on(k, left) == IF k = left THEN "done" ELSE "more"

\* Mutant of read_exact_step: a read of 0 bytes ends read_exact as if the
\* buffer were full.
read_exact_step_ignores_eof(k, left) ==
    IF k = 0 \/ k = left THEN "done" ELSE "more"

\* One poll of read_exact that returned k bytes with `left` bytes of its
\* buffer still to fill: 0 bytes is UnexpectedEof.
read_exact_step(k, left) ==
    IF k = 0 THEN "eof" ELSE IF k = left THEN "done" ELSE "more"

\* Mutant of exceeds_limit: no total is refused.
exceeds_limit_never(total, opts) == FALSE

\* Mutant of exceeds_limit: a total equal to the limit is refused too.
exceeds_limit_or_equal(total, opts) == UGe(total, opts.traversal_limit_in_words)

\* total_words as u64 > options.traversal_limit_in_words (line 105).
exceeds_limit(total, opts) == UGt(total, opts.traversal_limit_in_words)

\* Mutant of parse_segment_table_first: 512 segments are let through.
parse_segment_table_first_above_512(b) ==
    LET count == wrapping_add_1(u32_from_le_bytes(Slice(b, 0, 4)))
    IN IF UGt(count, U(512))
       THEN [err |-> "too_many_segments"]
       ELSE IF count = U(0)
       THEN [err |-> "too_few_segments"]
       ELSE [err |-> "", segment_count |-> UVal(count),
             first_segment_len |-> u32_from_le_bytes(Slice(b, 4, 8))]

\* Mutant of parse_segment_table_first: a count of 0 is let through.
parse_segment_table_first_zero_passes(b) ==
    LET count == wrapping_add_1(u32_from_le_bytes(Slice(b, 0, 4)))
    IN IF UGe(count, U(512))
       THEN [err |-> "too_many_segments"]
       ELSE [err |-> "", segment_count |-> UVal(count),
             first_segment_len |-> u32_from_le_bytes(Slice(b, 4, 8))]

\* parse_segment_table_first (lines 135-146).
parse_segment_table_first(b) ==
    LET count == wrapping_add_1(u32_from_le_bytes(Slice(b, 0, 4)))
    IN IF UGe(count, U(512))
       THEN [err |-> "too_many_segments"]
       ELSE IF count = U(0)
       THEN [err |-> "too_few_segments"]
       ELSE [err |-> "", segment_count |-> UVal(count),
             first_segment_len |-> u32_from_le_bytes(Slice(b, 4, 8))]

\* Mutant of push_slices: a slice ends at its length, not at the running total
\* plus its length.
RECURSIVE push_slices_end_is_len(_, _, _, _, _)
push_slices_end_is_len(bytes, count, idx, slices, total) ==
    IF idx >= count - 1 THEN <<slices, total>>
    ELSE LET segment_len == u32_from_le_bytes(Slice(bytes, idx * 4, (idx + 1) * 4))
         IN push_slices_end_is_len(bytes, count, idx + 1,
                                   Append(slices, <<total, segment_len>>),
                                   UAdd(total, segment_len))

\* The loops of lines 81-88 and 92-98 from index idx on: each length read
\* from the table bytes adds a slice at the running total.
RECURSIVE push_slices(_, _, _, _, _)
push_slices(bytes, count, idx, slices, total) ==
    IF idx >= count - 1 THEN <<slices, total>>
    ELSE LET segment_len == u32_from_le_bytes(Slice(bytes, idx * 4, (idx + 1) * 4))
         IN push_slices(bytes, count, idx + 1,
                        Append(slices, <<total, UAdd(total, segment_len)>>),
                        UAdd(total, segment_len))

\* The Words of owned_space: those read so far, zero Words after them.
owned_words(space) ==
    LET have == bytes_to_words(space.data)
    IN [j \in 1..UVal(space.len) |-> IF j <= Len(have) THEN have[j] ELSE Zeros(8)]

\* ReaderSegments::get_segment of an OwnedSegments (lines 36-43): Some of
\* the Words owned_space[a..b], None past the last slice.  Slicing with
\* a > b or b beyond the buffer panics.
get_segment_from_start(store, id) ==
    IF id < Len(store.segment_slices)
    THEN LET a == store.segment_slices[id + 1][1]
             b == store.segment_slices[id + 1][2]
         IN IF ULe(a, b) /\ ULe(b, store.owned_space.len)
            THEN [tag |-> "Some",
                  words |-> SubSeq(owned_words(store.owned_space),
                                   1, UVal(b) - UVal(a))]
            ELSE [tag |-> "panic", words |-> <<>>]
    ELSE [tag |-> "None", words |-> <<>>]

get_segment(store, id) ==
    IF id < Len(store.segment_slices)
    THEN LET a == store.segment_slices[id + 1][1]
             b == store.segment_slices[id + 1][2]
         IN IF ULe(a, b) /\ ULe(b, store.owned_space.len)
            THEN [tag |-> "Some",
                  words |-> SubSeq(owned_words(store.owned_space),
                                   UVal(a) + 1, UVal(b))]
            ELSE [tag |-> "panic", words |-> <<>>]
    ELSE [tag |-> "None", words |-> <<>>]

\* The harness calls read_message (lines 47-50, 62).
ReadMessage ==
    /\ phase = "read" /\ rpc = "idle"
    /\ result \in {"start", "message"}
    /\ rpc' = "first_read"
    /\ result' = "running"
    /\ buf' = Zeros(8)
    /\ n' = 0
    /\ segment_count' = 0
    /\ segment_slices' = <<>>
    /\ total_words' = U(0)
    /\ segment_sizes' = <<>>
    /\ owned_space' = [len |-> U(0), data |-> <<>>]
    /\ rstart' = pos
    /\ allocs' = <<>>
    /\ UNCHANGED <<source, phase, msgs, written, stream, pos, wvars, rfrequency, ridx,
                   options, got>>

\* reader.read(&mut buf[..]) (lines 64-69), one poll: 0 bytes is the clean
\* end of the stream, fewer than 8 go on to read_exact.
PollFirstRead ==
    /\ rpc = "first_read"
    /\ poll_read(8)
    /\ IF poll_read_pending
       THEN UNCHANGED <<rpc, buf, n, result>>
       ELSE /\ buf' = CopyInto(buf, 0, read_data(8))
            /\ n' = bytes_read(8)
            /\ IF first_read_next(n') = "none"
               THEN rpc' = "idle" /\ result' = "none"
               ELSE rpc' = first_read_next(n') /\ UNCHANGED result
    /\ UNCHANGED <<source, phase, msgs, written, stream, wvars, rfrequency, options,
                   segment_count, segment_slices, total_words, segment_sizes,
                   owned_space, got, rstart, allocs>>

\* reader.read_exact(&mut buf[n..]) (line 68), one poll: 0 bytes before the
\* buffer is full is UnexpectedEof.
PollFirstExact ==
    /\ rpc = "first_exact"
    /\ poll_read(8 - n)
    /\ IF poll_read_pending
       THEN UNCHANGED <<rpc, buf, n, result>>
       ELSE IF read_exact_step(bytes_read(8 - n), 8 - n) = "eof"
       THEN rpc' = "idle" /\ result' = "unexpected_eof" /\ UNCHANGED <<buf, n>>
       ELSE /\ buf' = CopyInto(buf, n, read_data(8 - n))
            /\ n' = n + bytes_read(8 - n)
            /\ rpc' = IF read_exact_step(bytes_read(8 - n), 8 - n) = "done"
                      THEN "parse" ELSE "first_exact"
            /\ UNCHANGED result
    /\ UNCHANGED <<source, phase, msgs, written, stream, wvars, rfrequency, options,
                   segment_count, segment_slices, total_words, segment_sizes,
                   owned_space, got, rstart, allocs>>

\* Lines 71-78, 90: the first word is parsed; a bad count ends the call, a
\* good one starts the slice list and chooses how the rest is read.
ParseFirst ==
    /\ rpc = "parse"
    /\ LET first == parse_segment_table_first(buf)
       IN IF first.err # ""
          THEN /\ rpc' = "idle" /\ result' = first.err
               /\ UNCHANGED <<segment_count, segment_slices, total_words,
                              segment_sizes>>
          ELSE /\ segment_count' = first.segment_count
               /\ segment_slices' = << <<U(0), first.first_segment_len>> >>
               /\ total_words' = first.first_segment_len
               /\ IF first.segment_count > 1
                  THEN IF first.segment_count < 4
                       THEN rpc' = "rest_small" /\ UNCHANGED segment_sizes
                       ELSE /\ rpc' = "rest_general"
                            /\ segment_sizes' =
                                   Zeros(read_table_len(first.segment_count))
                  ELSE rpc' = "check" /\ UNCHANGED segment_sizes
               /\ UNCHANGED result
    /\ n' = 0
    /\ UNCHANGED <<source, phase, msgs, written, stream, pos, wvars, rfrequency, ridx,
                   options, buf, owned_space, got, rstart, allocs>>

\* reader.read_exact(&mut buf) for 2 or 3 segments (line 80), one poll; when
\* the buffer is full the lengths are decoded (lines 81-88).
PollRestSmall ==
    /\ rpc = "rest_small"
    /\ poll_read(8 - n)
    /\ IF poll_read_pending
       THEN UNCHANGED <<rpc, buf, n, result, segment_slices, total_words>>
       ELSE IF read_exact_step(bytes_read(8 - n), 8 - n) = "eof"
       THEN /\ rpc' = "idle" /\ result' = "unexpected_eof"
            /\ UNCHANGED <<buf, n, segment_slices, total_words>>
       ELSE /\ buf' = CopyInto(buf, n, read_data(8 - n))
            /\ n' = n + bytes_read(8 - n)
            /\ IF read_exact_step(bytes_read(8 - n), 8 - n) = "done"
               THEN LET r == push_slices(buf', segment_count, 0,
                                         segment_slices, total_words)
                    IN /\ segment_slices' = r[1]
                       /\ total_words' = r[2]
                       /\ rpc' = "check"
               ELSE UNCHANGED <<rpc, segment_slices, total_words>>
            /\ UNCHANGED result
    /\ UNCHANGED <<source, phase, msgs, written, stream, wvars, rfrequency, options,
                   segment_count, segment_sizes, owned_space, got, rstart,
                   allocs>>

\* reader.read_exact(&mut segment_sizes[..]) for 4 or more segments (line
\* 91), one poll; when it is full the lengths are decoded (lines 92-98).
PollRestGeneral ==
    /\ rpc = "rest_general"
    /\ LET want == Len(segment_sizes) - n
       IN /\ poll_read(want)
          /\ IF poll_read_pending
             THEN UNCHANGED <<rpc, segment_sizes, n, result, segment_slices,
                              total_words>>
             ELSE IF read_exact_step(bytes_read(want), want) = "eof"
             THEN /\ rpc' = "idle" /\ result' = "unexpected_eof"
                  /\ UNCHANGED <<segment_sizes, n, segment_slices, total_words>>
             ELSE /\ segment_sizes' = CopyInto(segment_sizes, n, read_data(want))
                  /\ n' = n + bytes_read(want)
                  /\ IF read_exact_step(bytes_read(want), want) = "done"
                     THEN LET r == push_slices(segment_sizes', segment_count, 0,
                                               segment_slices, total_words)
                          IN /\ segment_slices' = r[1]
                             /\ total_words' = r[2]
                             /\ rpc' = "check"
                     ELSE UNCHANGED <<rpc, segment_slices, total_words>>
                  /\ UNCHANGED result
    /\ UNCHANGED <<source, phase, msgs, written, stream, wvars, rfrequency, options,
                   buf, segment_count, owned_space, got, rstart, allocs>>

\* The traversal limit (lines 105-111): too large a total ends the call,
\* otherwise read_segment_table returns and read_segments is entered.
CheckLimit ==
    /\ rpc = "check"
    /\ IF exceeds_limit(total_words, options)
       THEN rpc' = "idle" /\ result' = "message_too_large"
       ELSE rpc' = "allocate" /\ UNCHANGED result
    /\ UNCHANGED <<source, phase, msgs, written, stream, pos, wvars, rfrequency, ridx,
                   options, rlocals, got, rstart, allocs>>

\* Word::allocate_zeroed_vec(total_words) (line 122).  Of the buffer the
\* model keeps its length and the bytes read into it so far; the rest is 0.
\* read_exact into an empty buffer returns without a poll.
Allocate ==
    /\ rpc = "allocate"
    /\ owned_space' = [len |-> total_words, data |-> <<>>]
    /\ allocs' = Append(allocs, total_words)
    /\ n' = 0
    /\ rpc' = IF total_words = U(0) THEN "build" ELSE "payload"
    /\ UNCHANGED <<source, phase, msgs, written, stream, pos, wvars, rfrequency, ridx,
                   options, buf, segment_count, segment_slices, total_words,
                   segment_sizes, result, got, rstart>>

\* read.read_exact(words_to_bytes_mut(&mut owned_space[..])) (line 123), one
\* poll.  The bytes still to come may exceed the checker's integers; a poll
\* moves at most `rfrequency` of them, so `want` is their number capped just
\* above that.
PollPayload ==
    /\ rpc = "payload"
    /\ LET want == UMin(rfrequency + 1, USub(UBytes(owned_space.len), n))
       IN /\ poll_read(want)
          /\ IF poll_read_pending
             THEN UNCHANGED <<rpc, owned_space, n, result>>
             ELSE IF read_exact_step(bytes_read(want), want) = "eof"
             THEN /\ rpc' = "idle" /\ result' = "unexpected_eof"
                  /\ UNCHANGED <<owned_space, n>>
             ELSE /\ owned_space' =
                        [owned_space EXCEPT !.data = @ \o read_data(want)]
                  /\ n' = n + bytes_read(want)
                  /\ rpc' = IF read_exact_step(bytes_read(want), want) = "done"
                            THEN "build" ELSE "payload"
                  /\ UNCHANGED result
    /\ UNCHANGED <<source, phase, msgs, written, stream, wvars, rfrequency, options,
                   buf, segment_count, segment_slices, total_words,
                   segment_sizes, got, rstart, allocs>>

\* Lines 124-125 and 54: the OwnedSegments is built and returned in a
\* message::Reader; the harness keeps it (into_segments, line 520).
Build ==
    /\ rpc = "build"
    /\ got' = Append(got, [segment_slices |-> segment_slices,
                           owned_space |-> owned_space])
    /\ result' = "message"
    /\ rpc' = "idle"
    /\ UNCHANGED <<source, phase, msgs, written, stream, pos, wvars, rfrequency, ridx,
                   options, rlocals, rstart, allocs>>

\* ---------------------------------------------------------------- harness
\* Lines 513-515: the BlockingWrite is taken apart, the Cursor rewound and
\* wrapped in a BlockingRead of some frequency.
IntoReader ==
    /\ phase = "write" /\ wpc = "idle" /\ written = Len(msgs)
    /\ phase' = "read"
    /\ pos' = 0
    /\ wfrequency' = 0 /\ widx' = 0
    /\ rfrequency' \in Frequencies
    /\ ridx' = 0
    /\ woffer' = NoOffer /\ sinkcalls' = {}
    /\ UNCHANGED <<msgs, source, written, stream, wpc, segments, wbuf, wvec, wn,
                   wi, wresult, wstart, options, rpc, rlocals, result, got,
                   rstart, allocs>>

InitWriter ==
    /\ widx = 0 /\ wpc = "idle" /\ segments = <<>> /\ wbuf = Zeros(8)
    /\ wvec = <<>> /\ wn = 0 /\ wi = 0 /\ wresult = "start" /\ wstart = 0
    /\ woffer = NoOffer /\ sinkcalls = {}

InitReader ==
    /\ ridx = 0 /\ rpc = "idle" /\ buf = Zeros(8) /\ n = 0
    /\ segment_count = 0 /\ segment_slices = <<>> /\ total_words = U(0)
    /\ segment_sizes = <<>> /\ owned_space = [len |-> U(0), data |-> <<>>]
    /\ result = "start" /\ got = <<>> /\ rstart = 0 /\ allocs = <<>>

\* check_round_trip_async: an empty Cursor, a BlockingWrite of some
\* frequency, the messages to write, default reader options.
Init ==
    /\ phase = "write"
    /\ msgs \in MessageLists
    /\ source = "Vec"
    /\ written = 0
    /\ stream = <<>> /\ pos = 0
    /\ wfrequency \in Frequencies
    /\ rfrequency = 0
    /\ options = default_options
    /\ InitWriter /\ InitReader

NextWrite ==
    \/ WriteMessage
    \/ PollWriteFirst
    \/ PollWriteSmall
    \/ PollWriteGeneral
    \/ WriteSegments
    \/ PollWriteSegment

NextRead ==
    \/ ReadMessage
    \/ PollFirstRead
    \/ PollFirstExact
    \/ ParseFirst
    \/ PollRestSmall
    \/ PollRestGeneral
    \/ CheckLimit
    \/ Allocate
    \/ PollPayload
    \/ Build

Next == NextWrite \/ IntoReader \/ NextRead

Spec == Init /\ [][Next]_vars

\* ------------------------------------------------ the writer on any source
\* write_message takes any M: AsOutputSegments (line 180).  The messages of
\* the round trip, and the same with a message of no segment at the front
\* or at the back, are written from a Vec<Vec<Word>> and from a source that
\* hands its list over as it is.
Sources == {"Vec", "OutputSegments"}

WriteLists ==
    MessageLists
        \cup { Append(ms, <<>>) : ms \in MessageLists }
        \cup { << <<>> >> \o ms : ms \in MessageLists }

InitWrite ==
    /\ phase = "write"
    /\ msgs \in WriteLists
    /\ source \in Sources
    /\ written = 0
    /\ stream = <<>> /\ pos = 0
    /\ wfrequency \in Frequencies
    /\ rfrequency = 0
    /\ options = default_options
    /\ InitWriter /\ InitReader

SpecWrite == InitWrite /\ [][NextWrite]_vars

\* ------------------------------------------- the reader on arbitrary bytes
\* test_read_segment_table and test_read_invalid_segment_table hand the reader
\* byte strings no writer produced.  A raw stream is a count field, a first
\* length, four more 32-bit fields and then Words.
RawCounts ==
    { <<0, 0, 0, 0>>, <<1, 0, 0, 0>>, <<2, 0, 0, 0>>, <<3, 0, 0, 0>>,
      <<4, 0, 0, 0>>,
      <<254, 1, 0, 0>>,          \* 510: 511 segments
      <<255, 1, 0, 0>>,          \* 511: 512 segments
      <<0, 2, 0, 0>>,            \* 512: 513 segments (line 322)
      <<254, 255, 255, 255>>,
      <<255, 255, 255, 255>> }   \* line 340

RawLengths ==
    { <<0, 0, 0, 0>>, <<1, 0, 0, 0>>,
      <<0, 0, 128, 0>>,          \* 8 * 1024 * 1024, the default limit
      <<1, 0, 128, 0>>,          \* one more
      <<255, 255, 255, 255>> }

RawRests == { <<0, 0, 0, 0>>, <<1, 0, 0, 1>>, <<0, 7, 1, 0>> }

RawFields(r) == Flatten([i \in 1..4 |-> <<r[i], 0, 0, 0>>])

RawWords == Flatten([k \in 1..(MaxRawBytes \div 8) |-> WordOf(k)])

RawBase(c, l, r) == SubSeq(c \o l \o RawFields(r) \o RawWords, 1, MaxRawBytes)

\* The table of lines 303-308: lengths 77, 23, 1, 99.
TestTable4 ==
    <<3, 0, 0, 0, 77, 0, 0, 0, 23, 0, 0, 0, 1, 0, 0, 0, 99, 0, 0, 0, 0, 0, 0, 0>>

\* The largest table the reader accepts: 511 segments, all empty.
TestTable511 == <<254, 1, 0, 0>> \o Zeros(4 + read_table_len(511))

\* Every base whole, and the bases with up to five segments of 0 or 1 Words
\* cut after any number of bytes: the stream closes there.
RawStreams ==
    { RawBase(c, l, r) : c \in RawCounts, l \in RawLengths, r \in RawRests }
    \cup { SubSeq(RawBase(<<k, 0, 0, 0>>, <<l, 0, 0, 0>>, r), 1, cut) :
             k \in 0..4, l \in 0..1, r \in RawRests, cut \in 0..MaxRawBytes }
    \cup { TestTable4, TestTable511 }

RawOptions == { default_options, [traversal_limit_in_words |-> U(1)] }

InitRaw ==
    /\ phase = "read"
    /\ msgs = <<>>
    /\ source = "Vec"
    /\ written = 0
    /\ stream \in RawStreams /\ pos = 0
    /\ wfrequency = 0
    /\ rfrequency \in Frequencies
    /\ options \in RawOptions
    /\ InitWriter /\ InitReader

SpecRaw == InitRaw /\ [][NextRead]_vars

\* ------------------------------------------------------- fair scheduling
\* The steps of a call under way.  BlockingRead and BlockingWrite wake their
\* task before they answer Pending (lines 438 and 477), so the executor polls
\* a pending call again, and a call that is not pending runs on by itself:
\* a step of a call that stays possible is taken in the end.  Whether the
\* harness makes another call is left open.
CallSteps ==
    \/ PollWriteFirst \/ PollWriteSmall \/ PollWriteGeneral
    \/ WriteSegments \/ PollWriteSegment
    \/ PollFirstRead \/ PollFirstExact \/ ParseFirst
    \/ PollRestSmall \/ PollRestGeneral
    \/ CheckLimit \/ Allocate \/ PollPayload \/ Build

\* Streams that end anywhere in a message of 1, 3 or 5 segments, or after it.
LiveStreams ==
    { SubSeq(RawBase(<<k, 0, 0, 0>>, <<1, 0, 0, 0>>, <<1, 0, 0, 1>>), 1, cut) :
        k \in {0, 2, 4}, cut \in 0..MaxRawBytes }

\* The round trip of at most one message of at most four segments, and the
\* reader on a stream that may end anywhere.
InitLive ==
    \/ Init /\ Len(msgs) <= 1 /\ \A k \in 1..Len(msgs) : Len(msgs[k]) <= 4
    \/ InitRaw /\ stream \in LiveStreams

SpecLive == InitLive /\ [][Next]_vars /\ WF_vars(CallSteps)

\* =================================================================== claims
Errors ==
    {"too_many_segments", "too_few_segments", "message_too_large",
     "unexpected_eof"}

\* A read_message call has returned.
Finished == rpc = "idle" /\ result # "start"

\* Bytes of a segment table of `count` segments on the wire: the first word,
\* then count - 1 lengths and one padding field when count is even.
HeaderLen(count) ==
    8 + (IF count > 1
         THEN 4 * ((count - 1) + (IF count % 2 = 0 THEN 1 ELSE 0))
         ELSE 0)

Some(words) == [tag |-> "Some", words |-> words]

None == [tag |-> "None", words |-> <<>>]

\* ------------------------------------------------------------------- C1
\* C1 (round trip): once the harness has written a non-empty segment list
\* through a BlockingWrite and reads the stream back through a BlockingRead,
\* of any frequencies, the first read_message neither fails nor reports "no
\* message", and segment i of the message it returns equals segment i of the
\* list written, for every i.
RoundTrip ==
    (phase = "read" /\ Len(msgs) >= 1) =>
        /\ (Len(got) = 0 => result \in {"start", "running"})
        /\ (Len(got) >= 1 =>
               \A i \in 1..Len(msgs[1]) :
                   get_segment(got[1], i - 1) = Some(msgs[1][i]))

\* A message of four or more segments, one of them empty and one not, has
\* come back through a reader that blocks after every byte.
RoundTripWitness ==
    /\ phase = "read" /\ rfrequency = 1
    /\ Len(got) >= 1 /\ result = "message"
    /\ Len(msgs[1]) >= 4
    /\ \E i, j \in 1..Len(msgs[1]) :
           /\ i < j /\ msgs[1][i] = <<>> /\ Len(msgs[1][j]) >= 1
           /\ get_segment(got[1], j - 1) = Some(msgs[1][j])

\* ------------------------------------------------------------------- C2
\* C2 (traversal limit before allocation): a read_message call allocates at
\* most one payload buffer, only after the whole segment table is read and
\* total_words <= traversal_limit_in_words holds, and of exactly total_words
\* Words; no byte beyond the table is consumed before the allocation; a total
\* above the limit ends the call with "message too large", nothing allocated
\* and no payload byte consumed, and only a total above the limit does.
LimitBeforeAllocation ==
    LET limit == options.traversal_limit_in_words
        table_read == segment_count >= 1 /\ Len(segment_slices) = segment_count
    IN /\ Len(allocs) <= 1
       /\ \A k \in 1..Len(allocs) :
              ULe(allocs[k], limit) /\ allocs[k] = total_words
       /\ (allocs # <<>> =>
              table_read /\ pos - rstart >= HeaderLen(segment_count))
       /\ (allocs = <<>> =>
              pos - rstart <= (IF segment_count = 0 THEN 8
                               ELSE HeaderLen(segment_count)))
       /\ (rpc \in {"allocate", "payload", "build"} =>
              table_read /\ ULe(total_words, limit))
       /\ (result = "message_too_large" =>
              /\ table_read /\ UGt(total_words, limit)
              /\ allocs = <<>>
              /\ pos - rstart = HeaderLen(segment_count))
       /\ (table_read /\ rpc # "check" /\ UGt(total_words, limit) =>
              result = "message_too_large")

\* A table of several segments whose total is over the limit has been
\* refused by a reader that blocks after every byte.
LimitBeforeAllocationWitness ==
    /\ result = "message_too_large" /\ rpc = "idle"
    /\ segment_count > 1 /\ rfrequency = 1
    /\ allocs = <<>>

\* ------------------------------------------------------------------- C3
\* C3 (clean end of stream): a read_message call whose first read returns 0
\* bytes, the stream being at its end when the call begins, returns "no
\* message" and not an error; and "no message" is returned only so, by a call
\* that consumed no byte.
CleanEndOfStream ==
    /\ (result = "none" =>
           rpc = "idle" /\ pos = rstart /\ pos = Len(stream))
    /\ (Finished /\ rstart = Len(stream) => result = "none")

\* The stream ended between messages: a message was returned, then "no
\* message".
CleanEndOfStreamWitness ==
    /\ result = "none" /\ Len(got) = 1 /\ Len(stream) > 8

\* ------------------------------------------------------------------- C4
\* C4 (truncation): a read_message call that got at least one byte and met
\* the end of the stream before the 8 bytes of the first word, before the
\* rest of the table, or before the 8 * total_words payload bytes, returns an
\* error, never "no message" and never a message; and the end-of-stream
\* error is returned only by such a call.
Truncation ==
    Finished =>
        LET avail == Len(stream) - rstart
        IN /\ (avail \in 1..7 => result = "unexpected_eof")
           /\ (segment_count >= 1 /\ avail < HeaderLen(segment_count) =>
                  result = "unexpected_eof")
           /\ (allocs # <<>>
               /\ UGt(UAdd(UBytes(total_words), U(HeaderLen(segment_count))),
                      U(avail)) =>
                  result = "unexpected_eof")
           /\ (result = "unexpected_eof" =>
                  pos = Len(stream) /\ pos > rstart)

\* Exactly 4 of the 8 bytes of the first word arrived (line 328).
TruncationWitness ==
    /\ result = "unexpected_eof"
    /\ Len(stream) = 4 /\ pos - rstart = 4

\* ------------------------------------------------------------------- C5
\* The count field of the first word of the call under way, as it stands on
\* the stream.
CountBytes == SubSeq(stream, rstart + 1, rstart + 4)

\* The first word has been read and parsed.
ParsedFirst ==
    pos - rstart >= 8 /\ rpc \notin {"first_read", "first_exact", "parse"}

AllFF == <<255, 255, 255, 255>>

\* C5 (too many segments): once the first word is parsed, the call has ended
\* with "too many segments" exactly when the count field plus one is 512 or
\* more (and does not wrap to 0); a count field of 0..510 is accepted with
\* segment_count one more than it, so every table the reader goes on to read
\* has 1..511 segments; and the refusal comes with exactly the 8 bytes of the
\* first word consumed and nothing allocated.
TooManySegments ==
    /\ segment_count \in 0..511
    /\ (result = "too_many_segments" => ParsedFirst)
    /\ ParsedFirst =>
           LET c == CountBytes
               small == c[3] = 0 /\ c[4] = 0 /\ c[1] + 256 * c[2] <= 510
           IN /\ (result = "too_many_segments" <=> (~small /\ c # AllFF))
              /\ (small => segment_count = c[1] + 256 * c[2] + 1)
              /\ (result = "too_many_segments" =>
                     /\ rpc = "idle" /\ pos - rstart = 8
                     /\ segment_count = 0 /\ segment_slices = <<>>
                     /\ allocs = <<>>)

\* The first word of line 322, count field 00 02 00 00 (513 segments), has
\* been refused.
TooManySegmentsWitness ==
    /\ result = "too_many_segments"
    /\ CountBytes = <<0, 2, 0, 0>>
    /\ Len(stream) > 8 /\ pos = 8

\* ------------------------------------------------------------------- C6
\* C6 (too few segments): once the first word is parsed, the call has ended
\* with "too few segments" exactly when the count field is FF FF FF FF,
\* whatever the length field holds; no other call ends with that error.
TooFewSegments ==
    /\ (result = "too_few_segments" => ParsedFirst /\ rpc = "idle")
    /\ (ParsedFirst => (result = "too_few_segments" <=> CountBytes = AllFF))

\* FF FF FF FF followed by a length field that is not zero has been refused.
TooFewSegmentsWitness ==
    /\ result = "too_few_segments"
    /\ SubSeq(stream, rstart + 5, rstart + 8) = <<1, 0, 0, 0>>

\* ------------------------------------------------------------------- C7
\* C7 as claimed (overflow of the count is "too many segments"): a parsed
\* first word with count field FF FF FF FF ends the call with "too many
\* segments".
OverflowIsTooMany ==
    (ParsedFirst /\ CountBytes = AllFF) => result = "too_many_segments"

\* C7 as amended (the wrapped count 0 never passes as a count; it is refused
\* as "too few segments"): with count field FF FF FF FF read, the call never
\* takes a segment count from it, builds no slice, reads nothing past the
\* first word and allocates nothing, and it ends with "too few segments".
OverflowIsRefused ==
    (rpc # "first_exact" /\ pos - rstart >= 8 /\ CountBytes = AllFF) =>
        /\ rpc \in {"parse", "idle"}
        /\ segment_count = 0 /\ segment_slices = <<>> /\ allocs = <<>>
        /\ pos - rstart = 8
        /\ (rpc = "idle" => result = "too_few_segments")

\* The count field FF FF FF FF, arriving byte by byte with more of the stream
\* behind it, has been refused.
OverflowIsRefusedWitness ==
    /\ rpc = "idle" /\ result = "too_few_segments"
    /\ CountBytes = AllFF
    /\ rfrequency = 1 /\ Len(stream) >= 16

\* ------------------------------------------------------------------- C8
Le32(k) ==
    <<k % 256, (k \div 256) % 256, (k \div 65536) % 256, k \div 16777216>>

\* The table of a segment list as the wire format has it: count - 1, the
\* lengths in order, and one zero field when the count is even.
ExpectedTable(segs) ==
    Le32(Len(segs) - 1)
        \o Flatten([i \in 1..Len(segs) |-> Le32(Len(segs[i]))])
        \o (IF Len(segs) % 2 = 0 THEN Le32(0) ELSE <<>>)

\* What the write_message call under way has put on the stream.
Sent == SubSeq(stream, wstart + 1, Len(stream))

\* C8 (header encoding): while write_segment_table runs, what it has put on
\* the stream is a prefix of the little-endian u32 fields n - 1, l_0, l_1 ..
\* l_(n-1) and one zero field iff n is even; when it returns, the stream
\* holds exactly those fields, a whole number of 8-byte words, and nothing
\* else, and the segments follow them.
HeaderEncoding ==
    (phase = "write" /\ wpc # "idle") =>
        LET table == ExpectedTable(segments)
        IN /\ Len(table) % 8 = 0
           /\ (Len(segments) = 1 => Len(table) = 8)
           /\ (wpc \in {"table_first", "table_small", "table_general"} =>
                  /\ Len(Sent) < Len(table)
                  /\ Sent = SubSeq(table, 1, Len(Sent)))
           /\ (wpc \in {"segments", "segment"} =>
                  /\ Len(Sent) >= Len(table)
                  /\ SubSeq(Sent, 1, Len(table)) = table)
           /\ (wpc = "segments" /\ wi = 0 => Sent = table)

\* Lengths {1, 1}: the table 01 00 00 00 | 01 00 00 00 | 01 00 00 00 |
\* 00 00 00 00 is on the stream and no segment byte yet.
HeaderEncodingWitness ==
    /\ phase = "write" /\ wpc = "segments" /\ wi = 0
    /\ Len(segments) = 2 /\ Len(segments[1]) = 1 /\ Len(segments[2]) = 1
    /\ Sent = <<1, 0, 0, 0, 1, 0, 0, 0, 1, 0, 0, 0, 0, 0, 0, 0>>

\* ------------------------------------------------------------------- C9
\* The length of segment i (from 0) as the table on the stream declares it.
DeclaredLen(i) ==
    u32_from_le_bytes(
        IF i = 0 THEN SubSeq(stream, rstart + 5, rstart + 8)
        ELSE SubSeq(stream, rstart + 8 + 4 * (i - 1) + 1, rstart + 8 + 4 * i))

\* read_segment_table has decoded the whole table: the call is at or past the
\* limit check of line 105.
TableDecoded ==
    \/ rpc \in {"check", "allocate", "payload", "build"}
    \/ rpc = "idle" /\ result \in {"message", "message_too_large"}
    \/ rpc = "idle" /\ result = "unexpected_eof" /\ allocs # <<>>

\* C9 (offsets and the store): once the table of an accepted header is
\* decoded, segment_slices has segment_count entries, the first starts at 0,
\* each ends at its start plus the declared length and the next starts
\* there, and total_words is the last end and the Word length of the buffer
\* allocated (lengths 77, 23, 1, 99 give (0,77) (77,100) (100,101) (101,200)
\* and 200).  Of every store read_message returned, get_segment(id) is the
\* b - a Words of slice id, inside the buffer, for id below the number of
\* slices, and None at that number.
OffsetsAndStore ==
    /\ TableDecoded =>
           /\ segment_count >= 1
           /\ Len(segment_slices) = segment_count
           /\ segment_slices[1][1] = U(0)
           /\ \A i \in 1..segment_count :
                  segment_slices[i][2] =
                      UAdd(segment_slices[i][1], DeclaredLen(i - 1))
           /\ \A i \in 1..(segment_count - 1) :
                  segment_slices[i + 1][1] = segment_slices[i][2]
           /\ total_words = segment_slices[segment_count][2]
           /\ (allocs # <<>> => owned_space.len = total_words)
           /\ (stream = TestTable4 =>
                  /\ segment_slices = << <<U(0), U(77)>>, <<U(77), U(100)>>,
                                         <<U(100), U(101)>>, <<U(101), U(200)>> >>
                  /\ total_words = U(200))
    /\ \A k \in 1..Len(got) :
           LET store == got[k]
               count == Len(store.segment_slices)
           IN /\ count >= 1
              /\ Len(store.owned_space.data) = 8 * UVal(store.owned_space.len)
              /\ store.segment_slices[count][2] = store.owned_space.len
              /\ \A id \in 0..(count - 1) :
                     LET seg == get_segment(store, id)
                     IN /\ seg.tag = "Some"
                        /\ Len(seg.words) =
                               UVal(store.segment_slices[id + 1][2])
                               - UVal(store.segment_slices[id + 1][1])
              /\ \A id \in count..(count + 2) : get_segment(store, id) = None

\* The table of lines 303-308 has been decoded and accepted.
OffsetsAndStoreWitness ==
    /\ stream = TestTable4 /\ rpc = "allocate"
    /\ segment_slices = << <<U(0), U(77)>>, <<U(77), U(100)>>,
                           <<U(100), U(101)>>, <<U(101), U(200)>> >>

\* ------------------------------------------------------------------ C10
\* Bytes of a message on the wire.
EncodedLen(message) ==
    HeaderLen(Len(message))
        + 8 * SumSeq([i \in 1..Len(message) |-> Len(message[i])])

\* Where the k-th message written ends on the stream.
EncodedEnd(k) == SumSeq([j \in 1..k |-> EncodedLen(msgs[j])])

Decoded(store) ==
    [i \in 1..Len(store.segment_slices) |-> get_segment(store, i - 1)]

\* C10 (exact consumption): reading back k messages written one after the
\* other, no read_message fails; the j-th message returned is the j-th
\* written, whole; a call that returns a message has consumed exactly its
\* table and its 8 * total_words payload bytes, so that every call begins
\* where the message before ended and while it runs reads no byte of the
\* next message; and "no message" is returned only by call k + 1, at the end
\* of the stream.
ExactConsumption ==
    phase = "read" =>
        /\ result \notin Errors
        /\ Len(got) <= Len(msgs)
        /\ \A j \in 1..Len(got) :
               Decoded(got[j]) = [i \in 1..Len(msgs[j]) |-> Some(msgs[j][i])]
        /\ (rpc = "idle" => pos = EncodedEnd(Len(got)))
        /\ (rpc # "idle" =>
               /\ rstart = EncodedEnd(Len(got))
               /\ pos <= IF Len(got) < Len(msgs)
                         THEN EncodedEnd(Len(got) + 1) ELSE Len(stream))
        /\ (result = "message" =>
               pos - rstart = HeaderLen(segment_count) + 8 * UVal(total_words))
        /\ (result = "none" => Len(got) = Len(msgs) /\ pos = Len(stream))

\* Two messages that differ were written, both came back, and the third call
\* returned "no message".
ExactConsumptionWitness ==
    /\ phase = "read" /\ result = "none"
    /\ Len(msgs) = 2 /\ Len(got) = 2
    /\ got[1] # got[2]
    /\ Len(msgs[1]) >= 2 /\ Len(msgs[2]) >= 2

\* ------------------------------------------------------------------ C11
\* A message on the wire: its table and then its segments.
Encoded(segs) ==
    ExpectedTable(segs) \o Flatten([i \in 1..Len(segs) |-> Flatten(segs[i])])

\* Where the buffers of the write_all calls end on the wire: the first word,
\* the table, each segment.
PieceEnds(segs) ==
    {8, Len(ExpectedTable(segs))}
        \cup { Len(ExpectedTable(segs))
                   + 8 * SumSeq([j \in 1..i |-> Len(segs[j])]) : i \in 1..Len(segs) }

\* The end of the piece the byte after offset `at` lies in.
PieceEnd(segs, at) ==
    CHOOSE e \in PieceEnds(segs) :
        e > at /\ \A f \in PieceEnds(segs) : f > at => e <= f

\* A write_message call that got as far as the sink is under way or returned.
Writing == phase = "write" /\ wresult \in {"running", "ok"}

\* C11 (write ordering under partial writes): whatever the sink accepts per
\* poll and wherever it answers 'not ready', what it has accepted of a
\* message is always a prefix of header ++ segment_0 ++ .. ++ segment_(n-1),
\* appended and never written over, and the whole of it when write_message
\* returns Ok; every buffer offered starts at the first byte not yet accepted
\* and runs to the end of the piece under way (the first word, the rest of
\* the table, one segment) and no further, so no segment byte is offered
\* before the table is accepted and none of segment i + 1 before segment i.
OrderedWrites ==
    Writing =>
        LET enc == Encoded(segments)
        IN /\ pos = Len(stream)
           /\ Len(Sent) <= Len(enc)
           /\ Sent = SubSeq(enc, 1, Len(Sent))
           /\ (wresult = "ok" => Sent = enc)
           /\ ("poll_write" \in sinkcalls =>
                  /\ woffer.buf # <<>>
                  /\ woffer.at <= Len(Sent)
                  /\ Len(Sent) <= woffer.at + Len(woffer.buf)
                  /\ woffer.buf =
                         SubSeq(enc, woffer.at + 1, PieceEnd(segments, woffer.at)))

\* Three segments holding two Words went through a sink that takes three
\* bytes between two 'not ready' answers.
OrderedWritesWitness ==
    /\ Writing /\ wresult = "ok" /\ wfrequency = 3
    /\ Len(segments) = 3 /\ Len(Sent) = 32
    /\ source = "Vec"

\* ------------------------------------------------------------------ C12
\* C12 (no flush): at every point of every write_message call, returned Ok,
\* under way or panicked, the only method of the sink the call has invoked
\* is poll_write; poll_flush and poll_close are never invoked.
NoFlush ==
    /\ sinkcalls \subseteq {"poll_write"}
    /\ (wresult = "ok" => sinkcalls = {"poll_write"})

\* A write_message of four segments returned Ok having only written.
NoFlushWitness ==
    /\ phase = "write" /\ wresult = "ok" /\ wpc = "idle"
    /\ Len(segments) = 4
    /\ sinkcalls = {"poll_write"}

\* ------------------------------------------------------------------ C15
\* The message the write_message call under way, or the last one, was given.
Given == IF wresult = "ok" THEN msgs[written] ELSE msgs[written + 1]

Called == phase = "write" /\ wresult \in {"running", "ok", "panic"}

\* C15 as claimed (empty segment list on write): a write_message given a
\* message whose segment list is empty does not return Ok and offers the
\* sink nothing.
EmptyListAborts ==
    (Called /\ Given = <<>>) =>
        /\ wresult # "ok"
        /\ sinkcalls = {}
        /\ Sent = <<>>

\* C15 as amended (the list write_segment_table gets): write_message panics
\* exactly when as_output_segments returns a list of no segment, and then
\* before any poll of the sink, which is left as it was; a Vec<Vec<Word>> of
\* no segment is not such a case: its impl makes it one empty segment, which
\* is written as the one word (0, 0) and returns Ok; an empty segment
\* anywhere is written with length 0.
EmptyListWrite ==
    Called =>
        /\ (wresult = "panic" <=> segments = <<>>)
        /\ (wresult = "panic" =>
               /\ source = "OutputSegments" /\ Given = <<>>
               /\ wpc = "idle"
               /\ sinkcalls = {} /\ woffer = NoOffer
               /\ pos = wstart /\ Len(stream) = wstart)
        /\ ((source = "Vec" /\ Given = <<>>) =>
               /\ segments = << <<>> >>
               /\ Sent = SubSeq(Zeros(8), 1, Len(Sent))
               /\ (wresult = "ok" => Sent = Zeros(8)))
        /\ (wresult = "ok" =>
               \A i \in 1..Len(segments) :
                   Len(segments[i]) = 0 =>
                       SubSeq(Sent, 4 * i + 1, 4 * i + 4) = Le32(0))

\* After one message was written, a list of no segment made write_message
\* panic and the stream is what it was.
EmptyListWriteWitness ==
    /\ Called /\ wresult = "panic"
    /\ written = 1 /\ Len(stream) >= 16

\* ------------------------------------------------------------------ C13
\* The call that has just returned read a whole message that passes every
\* check, and the store it returned is that message.
Complete ==
    LET hdr == HeaderLen(segment_count)
    IN /\ segment_count \in 1..511
       /\ Len(segment_slices) = segment_count
       /\ ULe(total_words, options.traversal_limit_in_words)
       /\ allocs = <<total_words>>
       /\ owned_space.len = total_words
       /\ pos - rstart = hdr + 8 * UVal(total_words)
       /\ owned_space.data = SubSeq(stream, rstart + hdr + 1, pos)
       /\ got # <<>>
       /\ got[Len(got)] = [segment_slices |-> segment_slices,
                           owned_space |-> owned_space]

\* One step of the reader builds a store only as the last step of a call
\* that returns a complete message; a step that ends in an error builds
\* none, and no step follows an error.
AllOrNothingStep ==
    /\ (got' # got =>
           /\ got' = Append(got, [segment_slices |-> segment_slices',
                                  owned_space |-> owned_space'])
           /\ rpc' = "idle" /\ result' = "message"
           /\ Complete')
    /\ (result' \in Errors \cup {"none"} => got' = got)
    /\ (result \in Errors => UNCHANGED <<pos, ridx, rpc, result, got>>)

\* C13 (all-or-nothing decoding): read_message returns a message only when
\* the whole table and all 8 * total_words payload bytes were read and the
\* count and limit checks passed; a call that fails has returned (it polls
\* no more), whether the failure was in the first word, the table, the
\* limit check or the payload, and it added no store: stores come only
\* from the last step of a call that returns a complete message.
AllOrNothing ==
    /\ [](/\ (Finished /\ result = "message" => Complete)
          /\ (result \in Errors => rpc = "idle"))
    /\ [][AllOrNothingStep]_vars

\* The stream ended inside the payload: part of it is in the buffer
\* allocated, the call failed and there is no store.
AllOrNothingWitness ==
    /\ Finished /\ result = "unexpected_eof"
    /\ allocs # <<>> /\ Len(owned_space.data) >= 8
    /\ got = <<>>

\* ------------------------------------------------------------------ C14
\* The rest of the table has been read and no payload byte yet.
RestRead == segment_count > 1 /\ rpc \in {"check", "allocate"}

\* C14 as claimed (size of the remaining header read): for a count above 1
\* the bytes read between the first word and the payload are
\* ((segment_count rounded up to even) - 1) fields of 4 bytes.
RestLenRoundedUp ==
    RestRead =>
        pos - rstart - 8 = 4 * ((segment_count + (segment_count % 2)) - 1)

\* C14 as amended (the count is rounded down to even, and nothing is taken
\* off): for a count above 1, one read_exact reads after the first word and
\* before any payload byte exactly (segment_count rounded down to even)
\* fields of 4 bytes, the count - 1 lengths and the padding of an even
\* count; its buffer has that length, and until it is full nothing is
\* decoded or allocated.
RestLen ==
    segment_count > 1 =>
        LET len == 4 * (segment_count - (segment_count % 2))
        IN /\ len = HeaderLen(segment_count) - 8
           /\ (rpc \in {"rest_small", "rest_general"} =>
                  /\ Len(IF rpc = "rest_small" THEN buf ELSE segment_sizes) = len
                  /\ n < len
                  /\ pos - rstart = 8 + n
                  /\ Len(segment_slices) = 1
                  /\ allocs = <<>>)
           /\ (RestRead => pos - rstart - 8 = len)
           /\ (allocs # <<>> => pos - rstart - 8 >= len)

\* The 16 bytes after the first word of a table of five segments have come
\* in three at a time.
RestLenWitness ==
    /\ RestRead /\ rpc = "check"
    /\ segment_count = 5 /\ rfrequency = 3
    /\ pos - rstart = 24

\* ------------------------------------------------------------------ C16
\* a + b of two lengths held as halves, in exact arithmetic: the low halves
\* are added, their carry goes to the high halves, and nothing is cut off.
ExactAdd(a, b) ==
    LET lo == a[2] + b[2]
    IN <<a[1] + b[1] + (IF lo >= 65536 THEN 1 ELSE 0),
         IF lo >= 65536 THEN lo - 65536 ELSE lo>>

\* The slices that the declared lengths 0 .. count - 1 give, each starting
\* where the one before ends.
RECURSIVE ExactSlicesFrom(_, _, _, _)
ExactSlicesFrom(i, count, start, acc) ==
    IF i >= count THEN acc
    ELSE LET end == ExactAdd(start, DeclaredLen(i))
         IN ExactSlicesFrom(i + 1, count, end, Append(acc, <<start, end>>))

ExactSlices(count) == ExactSlicesFrom(0, count, U(0), <<>>)

\* The sum of the first k declared lengths.
ExactTotal(k) == IF k = 0 THEN U(0) ELSE ExactSlices(k)[k][2]

\* What the bytes from rstart on and the options alone make of a call: its
\* result, the bytes it consumes and the store it returns.  Nothing here
\* depends on how the bytes are delivered.
Outcome ==
    LET avail == Len(stream) - rstart
        c == CountBytes
        field == c[1] + 256 * c[2]
        count == field + 1
        hdr == HeaderLen(count)
        End(r, k) == [result |-> r, consumed |-> k, store |-> <<>>]
    IN IF avail = 0 THEN End("none", 0)
       ELSE IF avail < 8 THEN End("unexpected_eof", avail)
       ELSE IF c = AllFF THEN End("too_few_segments", 8)
       ELSE IF c[3] # 0 \/ c[4] # 0 \/ field >= 511
       THEN End("too_many_segments", 8)
       ELSE IF avail < hdr THEN End("unexpected_eof", avail)
       ELSE IF UGt(ExactTotal(count), options.traversal_limit_in_words)
       THEN End("message_too_large", hdr)
       ELSE IF UGt(UBytes(ExactTotal(count)), U(avail - hdr))
       THEN End("unexpected_eof", avail)
       ELSE LET len == 8 * UVal(ExactTotal(count))
            IN [result |-> "message", consumed |-> hdr + len,
                store |-> << [segment_slices |-> ExactSlices(count),
                              owned_space |->
                                  [len |-> ExactTotal(count),
                                   data |-> SubSeq(stream, rstart + hdr + 1,
                                                   rstart + hdr + len)]] >>]

\* C16 (independence from the delivery schedule): a read_message call that
\* has returned ended with the result, the number of bytes consumed and the
\* message that the bytes of the stream from where it began and the options
\* fix by themselves; so two runs on the same stream and options that
\* differ in the block frequency of the source, that is in the chunk sizes
\* and in where 'not ready' comes, end alike.
ScheduleIndependence ==
    Finished =>
        /\ result = Outcome.result
        /\ pos - rstart = Outcome.consumed
        /\ (result = "message" => <<got[Len(got)]>> = Outcome.store)

\* A message of three segments and its payload came in one byte at a time,
\* every byte after a 'not ready'.
ScheduleIndependenceWitness ==
    /\ Finished /\ result = "message"
    /\ rfrequency = 1
    /\ segment_count = 3 /\ UVal(total_words) = 2
    /\ rstart = 0

\* ------------------------------------------------------------------ C18
\* C18 (no wraparound in the size total): for every accepted first word,
\* the total and every slice bound that read_segment_table has computed is
\* the exact sum of the declared lengths, also when that sum goes beyond 32
\* bits, and it stays below 511 * 2^32, far under the 2^64 of the word; a table whose exact sum is above the limit ends the
\* call with "message too large" and is never allocated for.
NoWraparound ==
    /\ (segment_count >= 1 =>
           /\ segment_count <= 511
           /\ segment_slices = ExactSlices(Len(segment_slices))
           /\ total_words = ExactTotal(Len(segment_slices))
           /\ total_words[1] < 511 * 65536)
    /\ (TableDecoded =>
           /\ total_words = ExactTotal(segment_count)
           /\ (UGt(ExactTotal(segment_count), options.traversal_limit_in_words) =>
                  /\ rpc \in {"check", "idle"}
                  /\ (rpc = "idle" => result = "message_too_large")
                  /\ allocs = <<>>))

\* Lengths FF FF FF FF and 1: the total is 2^32, which 32 bits would hold as
\* 0, and the call was refused.
NoWraparoundWitness ==
    /\ Finished /\ result = "message_too_large"
    /\ segment_count = 2
    /\ DeclaredLen(0) = <<65535, 65535>> /\ DeclaredLen(1) = U(1)
    /\ total_words = <<65536, 0>>

\* ------------------------------------------------------------------ C19
\* The bytes the general path of read_segment_table would read for the call
\* under way: (segment_count & !1) * 4 of them after the first word.
GeneralRead ==
    SubSeq(stream, rstart + 9, rstart + 8 + read_table_len(segment_count))

\* C19 (the small-table path and the general path): for 2 and 3 segments,
\* the 8-byte buffer that write_segment_table sends after the first word is
\* byte for byte the vector the general path would build, (segment_count &
\* !1) * 4 = 8 bytes with the same lengths and, for 2 segments, zero padding
\* where the first word's length field was; and read_segment_table reads
\* into its 8-byte buffer the very bytes the general path would read, all 8
\* of it replaced, and decodes from it the slices and the total that the
\* general path would decode.
SmallPathIsGeneralPath ==
    /\ (phase = "write" /\ wpc = "table_small") =>
           /\ Len(segments) \in {2, 3}
           /\ Len(wbuf) = write_table_len(Len(segments))
           /\ wbuf = general_table_rest(segments)
           /\ (Len(segments) = 2 => SubSeq(wbuf, 5, 8) = Zeros(4))
    /\ rpc = "rest_small" =>
           /\ segment_count \in {2, 3}
           /\ Len(buf) = read_table_len(segment_count)
           /\ SubSeq(buf, 1, n) = SubSeq(GeneralRead, 1, n)
    /\ (TableDecoded /\ segment_count \in {2, 3}) =>
           /\ buf = GeneralRead
           /\ <<segment_slices, total_words>> =
                  push_slices(GeneralRead, segment_count, 0,
                              << <<U(0), DeclaredLen(0)>> >>, DeclaredLen(0))

\* Two segments of one Word each, written and read back: the buffer of the
\* reader holds the second length and the padding, and nothing of the first
\* word.
SmallPathIsGeneralPathWitness ==
    /\ phase = "read" /\ rpc = "check"
    /\ segment_count = 2
    /\ DeclaredLen(0) = U(1)
    /\ buf = <<1, 0, 0, 0, 0, 0, 0, 0>>

\* ------------------------------------------------------------------ C17
\* C17 (termination under a fair stream): with a source and a sink that,
\* once they answered 'not ready', are polled again and then move a byte or
\* report the end of the stream, every read_message call under way comes to
\* return a message, "no message" or an error, and every write_message call
\* under way comes to return Ok; no call polls on for ever, not one whose
\* source is at the end of its stream either.
Termination ==
    /\ (rpc # "idle") ~>
           (rpc = "idle" /\ result \in {"message", "none"} \cup Errors)
    /\ (wpc # "idle") ~> (wpc = "idle" /\ wresult = "ok")

\* A call whose source ran out inside the payload, after a 'not ready', has
\* returned the end-of-stream error.
TerminationWitness ==
    /\ Finished /\ result = "unexpected_eof"
    /\ allocs # <<>> /\ rfrequency = 1 /\ ridx = 1
    /\ pos = Len(stream) /\ pos - rstart > HeaderLen(segment_count)

====
